---- MODULE Spec2Model ----
(***************************************************************************)
(* Model of final.py: the "so far today" plastic dashboard.                *)
(*                                                                         *)
(* The program reads the wall clock in America/Los_Angeles once per        *)
(* refresh, turns it into the seconds elapsed since local midnight, scales *)
(* three daily totals by it in IEEE-754 double arithmetic (Python float),  *)
(* derives three comparisons and renders them.  k_format abbreviates a     *)
(* number.                                                                  *)
(*                                                                         *)
(* Python floats are modelled bit-exactly: a nonnegative double is a       *)
(* record [m, e] standing for m * 2^e, m a 53-bit integer (or zero).       *)
(* TLC's integers are 32 bits wide, so mantissas and the exact products    *)
(* and quotients they are rounded from are kept as little-endian           *)
(* sequences of base-1024 limbs.                                           *)
(***************************************************************************)
EXTENDS Integers, Sequences, FiniteSets, TLC

(***************************************************************************)
(* Arbitrary-precision naturals: <<>> is 0, s[1] the least significant     *)
(* limb, the most significant limb never 0.                                *)
(***************************************************************************)
LimbBits == 2 * 5
Limb == 2 ^ LimbBits

Pow2(n) == 2 ^ n

RECURSIVE BStrip(_)
BStrip(s) ==
    IF s = <<>> THEN <<>>
    ELSE IF s[Len(s)] = 0 THEN BStrip(SubSeq(s, 1, Len(s) - 1))
    ELSE s

\* Carry propagation over columns that may each hold any integer (a borrow is
\* a negative carry); the total is nonnegative.
RECURSIVE BCarry(_, _, _, _)
BCarry(cols, i, c, acc) ==
    IF i > Len(cols)
    THEN IF c = 0 THEN BStrip(acc)
         ELSE BCarry(cols, i, c \div Limb, Append(acc, c % Limb))
    ELSE LET v == cols[i] + c
         IN  BCarry(cols, i + 1, v \div Limb, Append(acc, v % Limb))

BNorm(cols) == BCarry(cols, 1, 0, <<>>)

BFromInt(n) == BNorm(<<n>>)

RECURSIVE BToIntFrom(_, _)
BToIntFrom(s, i) ==
    IF i > Len(s) THEN 0 ELSE s[i] + Limb * BToIntFrom(s, i + 1)

BToInt(s) == BToIntFrom(s, 1)

BLimb(s, i) == IF i >= 1 /\ i <= Len(s) THEN s[i] ELSE 0

BMax(a, b) == IF a >= b THEN a ELSE b

BAdd(a, b) ==
    BNorm([i \in 1..BMax(Len(a), Len(b)) |-> BLimb(a, i) + BLimb(b, i)])

\* a - b, for a >= b
BSub(a, b) ==
    BNorm([i \in 1..BMax(Len(a), Len(b)) |-> BLimb(a, i) - BLimb(b, i)])

RECURSIVE BCmpFrom(_, _, _)
BCmpFrom(a, b, i) ==
    IF i = 0 THEN 0
    ELSE IF a[i] > b[i] THEN 1
    ELSE IF a[i] < b[i] THEN -1
    ELSE BCmpFrom(a, b, i - 1)

\* -1, 0, 1 as a < b, a = b, a > b
BCmp(a, b) ==
    IF Len(a) > Len(b) THEN 1
    ELSE IF Len(a) < Len(b) THEN -1
    ELSE BCmpFrom(a, b, Len(a))

\* a * k for a small k (k < 2^20)
BMulSmall(a, k) == BNorm([i \in 1..Len(a) |-> a[i] * k])

RECURSIVE BColumn(_, _, _, _)
BColumn(a, b, k, i) ==
    IF i > Len(a) THEN 0
    ELSE (IF k - i + 1 >= 1 /\ k - i + 1 <= Len(b) THEN a[i] * b[k - i + 1] ELSE 0)
         + BColumn(a, b, k, i + 1)

BMul(a, b) ==
    IF a = <<>> \/ b = <<>> THEN <<>>
    ELSE BNorm([k \in 1..(Len(a) + Len(b) - 1) |-> BColumn(a, b, k, 1)])

\* [q, r] with a = q * d + r, 0 <= r < d, for a small d (d < 2^21)
RECURSIVE BDivFrom(_, _, _, _, _)
BDivFrom(a, d, i, r, acc) ==
    IF i = 0 THEN [q |-> BStrip(acc), r |-> r]
    ELSE LET v == r * Limb + a[i]
         IN  BDivFrom(a, d, i - 1, v % d, <<v \div d>> \o acc)

BDivSmall(a, d) == BDivFrom(a, d, Len(a), 0, <<>>)

BShl(a, k) ==
    IF a = <<>> THEN <<>>
    ELSE [i \in 1..(k \div LimbBits) |-> 0] \o BMulSmall(a, Pow2(k % LimbBits))

BShr(a, k) ==
    IF k \div LimbBits >= Len(a) THEN <<>>
    ELSE BDivSmall(SubSeq(a, (k \div LimbBits) + 1, Len(a)), Pow2(k % LimbBits)).q

IntBitLen(x) == CHOOSE n \in 0..LimbBits : x < Pow2(n) /\ (n = 0 \/ x >= Pow2(n - 1))

BBitLen(a) ==
    IF a = <<>> THEN 0 ELSE LimbBits * (Len(a) - 1) + IntBitLen(a[Len(a)])

\* bit i of a (bit 0 the least significant)
BBit(a, i) == (BLimb(a, (i \div LimbBits) + 1) \div Pow2(i % LimbBits)) % 2

\* whether any of the k low bits of a is set
BLowNonZero(a, k) ==
    \/ \E i \in 1..(k \div LimbBits) : BLimb(a, i) # 0
    \/ BLimb(a, (k \div LimbBits) + 1) % Pow2(k % LimbBits) # 0

(***************************************************************************)
(* Python float: IEEE-754 binary64, round to nearest, ties to even.  Every *)
(* value the program computes is nonnegative and normal, so a float is     *)
(* [m, e] with 2^52 <= m < 2^53 standing for m * 2^e, or FZero.            *)
(***************************************************************************)
MantBits == 53

FZero == [m |-> <<>>, e |-> 0]

BOne == <<1>>

\* The double nearest to q * 2^e (+ a nonzero amount below one unit of q when
\* sticky), ties to even.
FRound(q, sticky, e) ==
    LET len == BBitLen(q)
        t   == len - MantBits
    IN  IF q = <<>> THEN FZero
        ELSE IF t <= 0 THEN [m |-> BShl(q, -t), e |-> e + t]
        ELSE LET m0  == BShr(q, t)
                 rb  == BBit(q, t - 1) = 1
                 st  == sticky \/ BLowNonZero(q, t - 1)
                 odd == BBit(m0, 0) = 1
                 m1  == IF rb /\ (st \/ odd) THEN BAdd(m0, BOne) ELSE m0
             IN  IF BBitLen(m1) > MantBits
                 THEN [m |-> BShr(m1, 1), e |-> e + t + 1]
                 ELSE [m |-> m1, e |-> e + t]

\* float(n) for an int 0 <= n < 2^31 (exact)
FromInt(n) == FRound(BFromInt(n), FALSE, 0)

\* float(n) for an arbitrary-precision natural
FromBig(b) == FRound(b, FALSE, 0)

\* The exponent of 2 in d, and d without it
RECURSIVE TwoExp(_)
TwoExp(d) == IF d % 2 = 0 THEN 1 + TwoExp(d \div 2) ELSE 0

OddPart(d) == d \div Pow2(TwoExp(d))

GuardBits == 2 * 12

\* x / d for a float x and a positive int d whose odd part is below 2^21:
\* the exact quotient, rounded once.
FDivInt(x, d) ==
    IF x.m = <<>> THEN FZero
    ELSE LET qr == BDivSmall(BShl(x.m, GuardBits), OddPart(d))
         IN  FRound(qr.q, qr.r # 0, x.e - GuardBits - TwoExp(d))

\* x * y: the exact product, rounded once.
FMul(x, y) == FRound(BMul(x.m, y.m), FALSE, x.e + y.e)

\* x <= y
FLeq(x, y) ==
    IF x.m = <<>> THEN TRUE
    ELSE IF y.m = <<>> THEN FALSE
    ELSE IF x.e # y.e THEN x.e < y.e
    ELSE BCmp(x.m, y.m) <= 0

FLt(x, y) == FLeq(x, y) /\ x # y

\* Python's min(a, b) and max(a, b) on nonnegative floats
FMin(a, b) == IF FLt(b, a) THEN b ELSE a
FMax(a, b) == IF FLt(a, b) THEN b ELSE a

\* floor(x), an int, for 0 <= x < 2^31
FFloor(x) ==
    IF x.m = <<>> THEN 0
    ELSE IF x.e >= 0 THEN BToInt(BShl(x.m, x.e))
    ELSE BToInt(BShr(x.m, -x.e))

\* int(x // d) for a positive int d: the floor of the exact quotient
FFloorDivInt(x, d) == FFloor(x) \div d

\* x * k rounded to an integer with every half rounded up
FRoundHalfUp(x, k) ==
    IF x.m = <<>> THEN 0
    ELSE LET n == BMulSmall(x.m, k)
         IN  IF x.e >= 0 THEN BToInt(BShl(n, x.e))
             ELSE BToInt(BShr(n, -x.e)) + BBit(n, -x.e - 1)

\* The exact value x * k, k a small int, rounded to an integer, ties to even:
\* what '%.0f' prints for k = 1 and, less the decimal point, '%.1f' for k = 10.
FRoundToInt(x, k) ==
    IF x.m = <<>> THEN 0
    ELSE LET n == BMulSmall(x.m, k)
         IN  IF x.e >= 0 THEN BToInt(BShl(n, x.e))
             ELSE LET t  == -x.e
                      q  == BShr(n, t)
                      rb == BBit(n, t - 1) = 1
                      st == BLowNonZero(n, t - 1)
                      up == rb /\ (st \/ BBit(q, 0) = 1)
                  IN  BToInt(q) + (IF up THEN 1 ELSE 0)

(***************************************************************************)
(* Text: a string is the sequence of its characters.                       *)
(***************************************************************************)
DigitChars == <<"0", "1", "2", "3", "4", "5", "6", "7", "8", "9">>

RECURSIVE Digits(_)
Digits(n) ==
    IF n < 10 THEN <<DigitChars[n + 1]>>
    ELSE Digits(n \div 10) \o <<DigitChars[(n % 10) + 1]>>

\* three digits, zero padded
Pad3(n) ==
    <<DigitChars[(n \div 100) + 1], DigitChars[((n \div 10) % 10) + 1],
      DigitChars[(n % 10) + 1]>>

\* the ',' option of the format mini-language: groups of three digits
RECURSIVE Grouped(_)
Grouped(n) ==
    IF n < 1000 THEN Digits(n)
    ELSE Grouped(n \div 1000) \o <<",">> \o Pad3(n % 1000)

\* f"{x:.0f}", f"{x:,.0f}" and f"{x:.1f}": the exact binary value of x,
\* correctly rounded to the digits shown (ties to even)
FormatF0(x) == Digits(FRoundToInt(x, 1))
FormatF0Grouped(x) == Grouped(FRoundToInt(x, 1))
FormatF1(x) ==
    LET t == FRoundToInt(x, 10)
    IN  Digits(t \div 10) \o <<".", DigitChars[(t % 10) + 1]>>
FormatF1Grouped(x) ==
    LET t == FRoundToInt(x, 10)
    IN  Grouped(t \div 10) \o <<".", DigitChars[(t % 10) + 1]>>

\* str.rstrip(c): drops every trailing occurrence of the character c
RECURSIVE RStrip(_, _)
RStrip(str, c) ==
    IF str # <<>> /\ str[Len(str)] = c
    THEN RStrip(SubSeq(str, 1, Len(str) - 1), c)
    ELSE str

(***************************************************************************)
(* Constants of final.py                                                   *)
(***************************************************************************)
SECONDS_PER_DAY == 24 * 60 * 60
UPDATE_INTERVAL_SEC == 2

TOTAL_DAILY_PLASTIC_KG == 1260273973
\* the rate with // written for /
PlasticRateFloorDiv == FromInt(TOTAL_DAILY_PLASTIC_KG \div SECONDS_PER_DAY)

PLASTIC_KG_PER_SECOND == FDivInt(FromInt(TOTAL_DAILY_PLASTIC_KG), SECONDS_PER_DAY)

TOTAL_DAILY_OCEAN_PLASTIC_KG == 30136986
OCEAN_PLASTIC_KG_PER_SECOND ==
    FDivInt(FromInt(TOTAL_DAILY_OCEAN_PLASTIC_KG), SECONDS_PER_DAY)

TOTAL_DAILY_MICROPLASTIC_MG == 714
MICROPLASTIC_MG_PER_SECOND ==
    FDivInt(FromInt(TOTAL_DAILY_MICROPLASTIC_MG), SECONDS_PER_DAY)

KG_PER_CAR == 1500
KG_PER_STATUE == 204116
MG_PER_CREDIT_CARD == 5000
DAYS_PER_WEEK == 7
PERCENT == 100
SECONDS_PER_HOUR == 3600
MICROS_PER_SECOND == 1000000

(***************************************************************************)
(* TZ = ZoneInfo("America/Los_Angeles") in 2025.  An instant is a POSIX    *)
(* time [s, us]; Pacific Daylight Time (UTC-7) runs from DstStart          *)
(* (2025-03-09 10:00:00 UTC) to DstEnd (2025-11-02 09:00:00 UTC), Pacific  *)
(* Standard Time (UTC-8) otherwise.                                        *)
(***************************************************************************)
DstStart == 1741514400
DstEnd == 1762074000
PST == -8 * SECONDS_PER_HOUR
PDT == -7 * SECONDS_PER_HOUR

UtcOffset(s) == IF s >= DstStart /\ s < DstEnd THEN PDT ELSE PST

\* datetime.fromtimestamp(t, TZ): the wall-clock fields of instant t.  day is
\* the calendar date (days since 1970-01-01), sec the second of that date's
\* wall clock, fold = 1 in the repeated hour after DstEnd.
FromTimestamp(t) ==
    LET wall == t.s + UtcOffset(t.s)
    IN  [day  |-> wall \div SECONDS_PER_DAY,
         sec  |-> wall % SECONDS_PER_DAY,
         us   |-> t.us,
         fold |-> IF t.s >= DstEnd /\ t.s < DstEnd + SECONDS_PER_HOUR THEN 1 ELSE 0]

\* now.replace(hour=0, minute=0, second=0, microsecond=0)
ReplaceMidnight(dt) == [dt EXCEPT !.sec = 0, !.us = 0]

\* a - b for two aware datetimes with the same tzinfo object: the difference
\* of the wall-clock fields, no UTC adjustment; the timedelta in microseconds
WallDelta(a, b) ==
    BAdd(BMulSmall(BFromInt((a.day - b.day) * SECONDS_PER_DAY + a.sec - b.sec),
                   MICROS_PER_SECOND),
         BFromInt(a.us - b.us))

(***************************************************************************)
(* A datetime as an instant (seconds), by the zone's rules: what an aware  *)
(* subtraction across different tzinfo objects would use.                  *)
(***************************************************************************)
ToUtc(dt) ==
    LET wall == dt.day * SECONDS_PER_DAY + dt.sec
    IN  IF UtcOffset(wall - PDT) = PDT /\ (dt.fold = 0 \/ UtcOffset(wall - PST) # PST)
        THEN wall - PDT
        ELSE wall - PST

\* elapsed time between the two instants, in microseconds
UtcDelta(a, b) ==
    BAdd(BMulSmall(BFromInt(ToUtc(a) - ToUtc(b)), MICROS_PER_SECOND),
         BFromInt(a.us - b.us))

\* timedelta.total_seconds(): microseconds / 10**6, one correctly rounded division
TotalSeconds(td) == FDivInt(FromBig(td), MICROS_PER_SECOND)

\* elapsed time measured between instants rather than wall-clock fields, as
\* (now.astimezone(utc) - midnight.astimezone(utc)).total_seconds() would
RawElapsedUtc(dt) == TotalSeconds(UtcDelta(dt, ReplaceMidnight(dt)))

\* the same, returned without the clamp
ElapsedAcrossZones(dt) == RawElapsedUtc(dt)

(***************************************************************************)
(* Helper functions of final.py                                            *)
(***************************************************************************)
\* elapsed = (now - midnight).total_seconds()
RawElapsed(dt) == TotalSeconds(WallDelta(dt, ReplaceMidnight(dt)))

time_elapsed_seconds(dt) ==
    FMax(FZero, FMin(RawElapsed(dt), FromInt(SECONDS_PER_DAY)))

format_elapsed_hours(seconds) ==
    <<"Running Time: ">> \o Digits(FFloorDivInt(seconds, SECONDS_PER_HOUR))
        \o <<" hours">>

plastic_produced_so_far(dt) ==
    FMul(PLASTIC_KG_PER_SECOND, time_elapsed_seconds(dt))

\* the ocean figure computed from the production rate
OceanAtPlasticRate(dt) ==
    FMul(PLASTIC_KG_PER_SECOND, time_elapsed_seconds(dt))

ocean_plastic_entered_so_far(dt) ==
    FMul(OCEAN_PLASTIC_KG_PER_SECOND, time_elapsed_seconds(dt))

microplastic_ingested_so_far(dt) ==
    FMul(MICROPLASTIC_MG_PER_SECOND, time_elapsed_seconds(dt))

Billion == 1000 * 1000 * 1000
Million == 1000 * 1000
Thousand == 10 * 100

k_format(v) ==
    IF FLeq(FromInt(Billion), v)
    THEN RStrip(RStrip(FormatF1(FDivInt(v, Billion)) \o <<"B">>, "0"), ".")
    ELSE IF FLeq(FromInt(Million), v)
    THEN RStrip(RStrip(FormatF1(FDivInt(v, Million)) \o <<"M">>, "0"), ".")
    ELSE IF FLeq(FromInt(Thousand), v)
    THEN FormatF0(FDivInt(v, Thousand)) \o <<"k">>
    ELSE FormatF0Grouped(v)

\* the cars figure divided by the statue weight
PlasticToStatues(plastic) == FDivInt(plastic, KG_PER_STATUE)

\* the comparisons computed inline in main
PlasticToCars(plastic) == FDivInt(plastic, KG_PER_CAR)
OceanToStatues(ocean) == FDivInt(ocean, KG_PER_STATUE)
CreditCardEquiv(micro) ==
    FMul(FDivInt(FMul(micro, FromInt(DAYS_PER_WEEK)), MG_PER_CREDIT_CARD),
         FromInt(PERCENT))

(***************************************************************************)
(* State                                                                   *)
(***************************************************************************)
VARIABLES
    pc,                 \* "start" before the loop, "loop" once a tick has run
    clock,              \* the system clock at the last read (an instant)
    now,                \* main's now
    elapsed_seconds,
    running_hours,
    running_time_str,
    plastic_produced,
    plastic_to_cars,
    ocean_plastic,
    ocean_to_statues,
    microplastic,
    credit_card_equiv,
    placeholder,        \* what the page shows
    first,              \* history: clock reading and values of the first tick
    ticks,              \* history: iterations run so far, counted up to MaxTicks
    val,                \* k_format's argument, as [n, half]: n + half / 2
    out                 \* k_format's result, <<>> before the call

dash == <<pc, clock, now, elapsed_seconds, running_hours, running_time_str,
          plastic_produced, plastic_to_cars, ocean_plastic, ocean_to_statues,
          microplastic, credit_card_equiv, placeholder, first, ticks>>
fmt == <<val, out>>
vars == <<dash, fmt>>

(***************************************************************************)
(* The instants the clock is read at: a half-hour grid over three local    *)
(* days (an ordinary one, the 23-hour day of DstStart, the 25-hour day of  *)
(* DstEnd) and the last microsecond before each of their midnights.        *)
(***************************************************************************)
MaxSteps == 50
MaxTicks == 3
GridStep == 30 * 60

DayStarts ==
    {DstStart - 2 * SECONDS_PER_HOUR - SECONDS_PER_DAY,
     DstStart - 2 * SECONDS_PER_HOUR,
     DstEnd - 2 * SECONDS_PER_HOUR}

Instants ==
    {[s |-> d + GridStep * k, us |-> 0] : d \in DayStarts, k \in 0..MaxSteps}
    \cup {[s |-> d - 1, us |-> MICROS_PER_SECOND - 1] : d \in DayStarts}

StartInstants ==
    {[s |-> d + 12 * SECONDS_PER_HOUR, us |-> 0] : d \in DayStarts}
    \cup {[s |-> DstEnd - SECONDS_PER_HOUR + GridStep, us |-> 0]}

\* instant b is at least d seconds after instant a
AtLeastAfter(a, b, d) == b.s > a.s + d \/ (b.s = a.s + d /\ b.us >= a.us)

Before(a, b) == a.s < b.s \/ (a.s = b.s /\ a.us < b.us)

NoVal == [n |-> 0, half |-> 0]

Nothing == <<>>

Init ==
    /\ pc = "start"
    /\ clock \in StartInstants
    /\ now = Nothing
    /\ elapsed_seconds = FZero
    /\ running_hours = 0
    /\ running_time_str = Nothing
    /\ plastic_produced = FZero
    /\ plastic_to_cars = FZero
    /\ ocean_plastic = FZero
    /\ ocean_to_statues = FZero
    /\ microplastic = FZero
    /\ credit_card_equiv = FZero
    /\ placeholder = Nothing
    /\ first = Nothing
    /\ ticks = 0
    /\ val = NoVal
    /\ out = Nothing

\* the formatted figures of the markdown blocks written into the placeholder
Render(plastic, cars, ocean, statues, micro, card, hours) ==
    [plastic_value   |-> FormatF0Grouped(plastic) \o <<" kg">>,
     plastic_compare |-> FormatF0Grouped(cars) \o <<" cars">>,
     ocean_value     |-> FormatF0Grouped(ocean) \o <<" kg">>,
     ocean_compare   |-> FormatF0Grouped(statues) \o <<" Statues of Liberty">>,
     micro_value     |-> FormatF0Grouped(micro) \o <<" mg">>,
     micro_compare   |-> FormatF1(card) \o <<"% credit card/week">>,
     running         |-> <<"Running Time: ">> \o Digits(hours) \o <<" hours">>]

\* The values one iteration of `while True` computes from the clock reading t
\* (lines 163-175) and the page it renders from them
Computed(t) ==
    LET n       == FromTimestamp(t)
        elapsed == time_elapsed_seconds(n)
        hours   == FFloorDivInt(elapsed, SECONDS_PER_HOUR)
        plastic == plastic_produced_so_far(n)
        cars    == PlasticToCars(plastic)
        ocean   == ocean_plastic_entered_so_far(n)
        statues == OceanToStatues(ocean)
        micro   == microplastic_ingested_so_far(n)
        card    == CreditCardEquiv(micro)
    IN  [now               |-> n,
         elapsed_seconds   |-> elapsed,
         running_hours     |-> hours,
         running_time_str  |-> format_elapsed_hours(elapsed),
         plastic_produced  |-> plastic,
         plastic_to_cars   |-> cars,
         ocean_plastic     |-> ocean,
         ocean_to_statues  |-> statues,
         microplastic      |-> micro,
         credit_card_equiv |-> card,
         page |-> Render(plastic, cars, ocean, statues, micro, card, hours)]

\* Computed reads nothing but its argument and the constants, so it is
\* evaluated once per instant and looked up from then on.
ComputedAt == {[t |-> t, r |-> Computed(t)] : t \in Instants \cup StartInstants}

Lookup(t) == (CHOOSE p \in ComputedAt : p.t = t).r

\* an iteration that keeps the largest plastic figure seen so far
IterationKeepingMax(t) ==
    \E r \in {Lookup(t)} :
        /\ clock' = t
        /\ now' = r.now
        /\ elapsed_seconds' = r.elapsed_seconds
        /\ running_hours' = r.running_hours
        /\ running_time_str' = r.running_time_str
        /\ plastic_produced' = FMax(plastic_produced, r.plastic_produced)
        /\ plastic_to_cars' = r.plastic_to_cars
        /\ ocean_plastic' = r.ocean_plastic
        /\ ocean_to_statues' = r.ocean_to_statues
        /\ microplastic' = r.microplastic
        /\ credit_card_equiv' = r.credit_card_equiv
        /\ placeholder' = r.page
        /\ first' = IF pc = "start" THEN [clock |-> t, values |-> r] ELSE first
        /\ ticks' = IF ticks < MaxTicks THEN ticks + 1 ELSE ticks
        /\ pc' = "loop"
        /\ UNCHANGED fmt

\* One iteration of `while True`, with the clock reading t
Iteration(t) ==
    \E r \in {Lookup(t)} :
        /\ clock' = t
        /\ now' = r.now
        /\ elapsed_seconds' = r.elapsed_seconds
        /\ running_hours' = r.running_hours
        /\ running_time_str' = r.running_time_str
        /\ plastic_produced' = r.plastic_produced
        /\ plastic_to_cars' = r.plastic_to_cars
        /\ ocean_plastic' = r.ocean_plastic
        /\ ocean_to_statues' = r.ocean_to_statues
        /\ microplastic' = r.microplastic
        /\ credit_card_equiv' = r.credit_card_equiv
        /\ placeholder' = r.page
        /\ first' = IF pc = "start" THEN [clock |-> t, values |-> r] ELSE first
        /\ ticks' = IF ticks < MaxTicks THEN ticks + 1 ELSE ticks
        /\ pc' = "loop"
        /\ UNCHANGED fmt

\* the first iteration: the clock is read as the program starts
FirstTick ==
    /\ pc = "start"
    /\ Iteration(clock)

\* a later iteration: time.sleep(UPDATE_INTERVAL_SEC) has returned, so the
\* clock reads at least that much later
Tick ==
    /\ pc = "loop"
    /\ \E t \in Instants :
        /\ AtLeastAfter(clock, t, UPDATE_INTERVAL_SEC)
        /\ Iteration(t)

\* a later iteration after the system clock was set back during the sleep
\* (datetime.now reads the realtime clock, which is not monotonic)
TickClockSetBack ==
    /\ pc = "loop"
    /\ \E t \in Instants :
        /\ ~AtLeastAfter(clock, t, UPDATE_INTERVAL_SEC)
        /\ Iteration(t)

Next == FirstTick \/ Tick \/ TickClockSetBack

Spec == Init /\ [][Next]_vars

(***************************************************************************)
(* k_format as a pure function: the argument is drawn from the values      *)
(* around each tier boundary and each rounding tie, and their halves.      *)
(***************************************************************************)
MaxOffset == 2

KBases ==
    {0, 499, 842, 998, 1499, 2499, 3499, 12344, 999498, 999997,
     1049999, 1149999, 1249999, 1499999, 1999999,
     999949998, 999999997, 1260273972, 1499999999, 1999999999}

KInputs == [n : {b + j : b \in KBases, j \in 0..MaxOffset}, half : {0, 1}]

\* the float n + half / 2 (exact)
KVal(v) == FDivInt(FromBig(BAdd(BMulSmall(BFromInt(v.n), 2), BFromInt(v.half))), 2)

InitFmt ==
    /\ pc = "start"
    /\ clock = [s |-> DstStart, us |-> 0]
    /\ now = Nothing
    /\ elapsed_seconds = FZero
    /\ running_hours = 0
    /\ running_time_str = Nothing
    /\ plastic_produced = FZero
    /\ plastic_to_cars = FZero
    /\ ocean_plastic = FZero
    /\ ocean_to_statues = FZero
    /\ microplastic = FZero
    /\ credit_card_equiv = FZero
    /\ placeholder = Nothing
    /\ first = Nothing
    /\ ticks = 0
    /\ val \in KInputs
    /\ out = Nothing

KFormat ==
    /\ out = Nothing
    /\ out' = k_format(KVal(val))
    /\ UNCHANGED <<val, dash>>

NextFmt == KFormat

SpecFmt == InitFmt /\ [][NextFmt]_vars

(***************************************************************************)
(* Exact arithmetic for stating the properties: a * 2^ea against b * 2^eb  *)
(***************************************************************************)
IntMin(a, b) == IF a <= b THEN a ELSE b

DCmp(a, ea, b, eb) ==
    BCmp(BShl(a, ea - IntMin(ea, eb)), BShl(b, eb - IntMin(ea, eb)))

BAbsDiff(a, b) == IF BCmp(a, b) >= 0 THEN BSub(a, b) ELSE BSub(b, a)

\* | a * 2^ea - b * 2^eb |  <=  c * 2^ec
DWithin(a, ea, b, eb, c, ec) ==
    \E lo \in {IntMin(IntMin(ea, eb), ec)} :
        BCmp(BAbsDiff(BShl(a, ea - lo), BShl(b, eb - lo)), BShl(c, ec - lo)) <= 0

\* r = total * s / SECONDS_PER_DAY, exactly
ExactlyScaled(r, total, s) ==
    DCmp(BMulSmall(r.m, SECONDS_PER_DAY), r.e, BMul(BFromInt(total), s.m), s.e) = 0

\* | r - total * s / SECONDS_PER_DAY | <= 2^-51 * total * s / SECONDS_PER_DAY
NearlyScaled(r, total, s) ==
    DWithin(BMulSmall(r.m, SECONDS_PER_DAY), r.e,
            BMul(BFromInt(total), s.m), s.e,
            BMul(BFromInt(total), s.m), s.e - 51)

\* 0 <= r <= total
WithinTotal(r, total) == DCmp(r.m, r.e, BFromInt(total), 0) <= 0

\* the double total / 2 (a halved double keeps its mantissa)
HalfOf(total) == [m |-> FromInt(total).m, e |-> FromInt(total).e - 1]

Ticked == pc = "loop"

\* the raw wall-clock difference of line 34, in whole seconds
WallSeconds(dt) == (dt.day - ReplaceMidnight(dt).day) * SECONDS_PER_DAY + dt.sec

Midnight == now.sec = 0 /\ now.us = 0

Noon == now.sec = SECONDS_PER_DAY \div 2 /\ now.us = 0

\* the values of the last iteration, laid out as Computed lays them out
Shown ==
    [now               |-> now,
     elapsed_seconds   |-> elapsed_seconds,
     running_hours     |-> running_hours,
     running_time_str  |-> running_time_str,
     plastic_produced  |-> plastic_produced,
     plastic_to_cars   |-> plastic_to_cars,
     ocean_plastic     |-> ocean_plastic,
     ocean_to_statues  |-> ocean_to_statues,
     microplastic      |-> microplastic,
     credit_card_equiv |-> credit_card_equiv,
     page              |-> placeholder]

Formatted == out # Nothing

\* twice k_format's argument, an integer
Twice(v) == 2 * v.n + v.half

\* the number a k_format result shows: its digits up to the decimal point or
\* the suffix, thousands separators skipped
DigitValue(c) == CHOOSE d \in 0..9 : DigitChars[d + 1] = c

RECURSIVE ShownFrom(_, _, _)
ShownFrom(str, i, acc) ==
    IF i > Len(str) THEN acc
    ELSE IF str[i] = "," THEN ShownFrom(str, i + 1, acc)
    ELSE IF \E d \in 1..10 : DigitChars[d] = str[i]
    THEN ShownFrom(str, i + 1, 10 * acc + DigitValue(str[i]))
    ELSE acc

ShownNumber(str) == ShownFrom(str, 1, 0)

\* x / unit to one decimal, trailing zero and point removed, then the suffix
StrippedAbbrev(x, unit, suffix) ==
    RStrip(RStrip(FormatF1(FDivInt(x, unit)), "0"), ".") \o <<suffix>>

\* p / q (p, q ints, q even) to the nearest integer, a half rounded up
NearestHalfUp(p, q) == (p + q \div 2) \div q

\* p / q to the nearest integer, a half rounded to the even neighbour
NearestHalfEven(p, q) ==
    IF 2 * (p % q) > q \/ (2 * (p % q) = q /\ (p \div q) % 2 = 1)
    THEN p \div q + 1
    ELSE p \div q

(***************************************************************************)
(* Properties of the dashboard loop (Spec)                                 *)
(***************************************************************************)

\* C1: for every timestamp of the zone, the daylight-saving days included,
\* time_elapsed_seconds returns a value in [0, 86400], so the elapsed
\* fraction elapsed / 86400 is in [0, 1].
ElapsedWithinDay ==
    Ticked =>
        /\ WallSeconds(now) >= 0
        /\ FLeq(FZero, elapsed_seconds)
        /\ FLeq(elapsed_seconds, FromInt(SECONDS_PER_DAY))
        /\ FLeq(FDivInt(elapsed_seconds, SECONDS_PER_DAY), FromInt(1))

\* a tick in the repeated hour of the day the clocks are set back
TickInRepeatedHour == Ticked /\ now.fold = 1 /\ FLt(FZero, elapsed_seconds)

\* C2: within one calendar day, as real time advances from one tick to the
\* next, the elapsed seconds never decrease, and they are 0 at local
\* midnight, on every day, the daylight-saving days included.
ElapsedNeverDecreasesWithinDay ==
    [][(Ticked /\ Before(clock, clock') /\ now'.day = now.day)
          => /\ FLeq(elapsed_seconds, elapsed_seconds')
             /\ FLeq(plastic_produced, plastic_produced')
             /\ (now'.sec = 0 /\ now'.us = 0 => elapsed_seconds' = FZero)]_vars

\* C3, as stated: each accrued quantity is exactly D * s / 86400.
AccruedExactlyProportional ==
    Ticked =>
        /\ ExactlyScaled(plastic_produced, TOTAL_DAILY_PLASTIC_KG, elapsed_seconds)
        /\ ExactlyScaled(ocean_plastic, TOTAL_DAILY_OCEAN_PLASTIC_KG, elapsed_seconds)
        /\ ExactlyScaled(microplastic, TOTAL_DAILY_MICROPLASTIC_MG, elapsed_seconds)

\* C3, as the code has it: each accrued quantity is the double product
\* (D / 86400) * s, within a relative error of 2^-51 of D * s / 86400; it
\* lies in [0, D], is 0 when s = 0, and rate * 86400 is exactly D.
AccruedNearlyProportional ==
    /\ FMul(PLASTIC_KG_PER_SECOND, FromInt(SECONDS_PER_DAY))
          = FromInt(TOTAL_DAILY_PLASTIC_KG)
    /\ FMul(OCEAN_PLASTIC_KG_PER_SECOND, FromInt(SECONDS_PER_DAY))
          = FromInt(TOTAL_DAILY_OCEAN_PLASTIC_KG)
    /\ FMul(MICROPLASTIC_MG_PER_SECOND, FromInt(SECONDS_PER_DAY))
          = FromInt(TOTAL_DAILY_MICROPLASTIC_MG)
    /\ Ticked =>
        /\ NearlyScaled(plastic_produced, TOTAL_DAILY_PLASTIC_KG, elapsed_seconds)
        /\ NearlyScaled(ocean_plastic, TOTAL_DAILY_OCEAN_PLASTIC_KG, elapsed_seconds)
        /\ NearlyScaled(microplastic, TOTAL_DAILY_MICROPLASTIC_MG, elapsed_seconds)
        /\ WithinTotal(plastic_produced, TOTAL_DAILY_PLASTIC_KG)
        /\ WithinTotal(ocean_plastic, TOTAL_DAILY_OCEAN_PLASTIC_KG)
        /\ WithinTotal(microplastic, TOTAL_DAILY_MICROPLASTIC_MG)
        /\ elapsed_seconds = FZero =>
              /\ plastic_produced = FZero
              /\ ocean_plastic = FZero
              /\ microplastic = FZero

\* half an hour into a day, a product that is not the exact quotient
TickWithRoundedProduct ==
    /\ Ticked
    /\ now.sec = GridStep
    /\ ~ExactlyScaled(plastic_produced, TOTAL_DAILY_PLASTIC_KG, elapsed_seconds)
    /\ NearlyScaled(plastic_produced, TOTAL_DAILY_PLASTIC_KG, elapsed_seconds)

\* C6: in a tick at exactly local midnight the three accrued quantities and
\* the three comparisons are 0; in a tick at exactly 12:00:00 each accrued
\* quantity is exactly half its daily total, on every day, the
\* daylight-saving days included.
MidnightZeroNoonHalf ==
    Ticked =>
        /\ Midnight =>
              /\ plastic_produced = FZero
              /\ ocean_plastic = FZero
              /\ microplastic = FZero
              /\ plastic_to_cars = FZero
              /\ ocean_to_statues = FZero
              /\ credit_card_equiv = FZero
        /\ Noon =>
              /\ plastic_produced = HalfOf(TOTAL_DAILY_PLASTIC_KG)
              /\ ocean_plastic = HalfOf(TOTAL_DAILY_OCEAN_PLASTIC_KG)
              /\ microplastic = HalfOf(TOTAL_DAILY_MICROPLASTIC_MG)

\* noon of the 25-hour day, thirteen hours of real time after its midnight
NoonOfFallBackDay ==
    /\ Ticked
    /\ Noon
    /\ clock.s = DstEnd + 11 * SECONDS_PER_HOUR
    /\ plastic_produced = HalfOf(TOTAL_DAILY_PLASTIC_KG)

\* C7: the cars comparison of each tick is the accrued plastic divided by
\* 1500 (the double nearest the quotient); 1500 kg is exactly 1 car and
\* 3000 kg exactly 2; the value is in [0, TOTAL_DAILY_PLASTIC_KG / 1500].
CarsIsPlasticOverRatio ==
    /\ PlasticToCars(FromInt(KG_PER_CAR)) = FromInt(1)
    /\ PlasticToCars(FromInt(2 * KG_PER_CAR)) = FromInt(2)
    /\ Ticked =>
        /\ DWithin(BMulSmall(plastic_to_cars.m, KG_PER_CAR), plastic_to_cars.e,
                   plastic_produced.m, plastic_produced.e,
                   BFromInt(KG_PER_CAR), plastic_to_cars.e - 1)
        /\ DCmp(BMulSmall(plastic_to_cars.m, KG_PER_CAR), plastic_to_cars.e,
                BFromInt(TOTAL_DAILY_PLASTIC_KG), 0) <= 0
        /\ FLeq(FZero, plastic_to_cars)

\* a tick with cars to show
TickWithCars == Ticked /\ FLt(FromInt(1), plastic_to_cars)

\* C8: an iteration computes everything from its own clock reading and the
\* constants; two ticks with the same timestamp show identical values
\* whatever ticks ran before them.
TicksIndependent ==
    (Ticked /\ clock = first.clock) => Shown = first.values

\* the first tick's timestamp read again after other ticks
SameTimestampAgain == Ticked /\ ticks >= 3 /\ clock = first.clock

\* C10: the raw difference between now and midnight of the same date is
\* already in [0, 86400): the clamp never changes it, 86400 is never
\* returned, and the running hours are an integer in 0..23.
ClampNeverActs ==
    Ticked =>
        /\ WallSeconds(now) \in 0..(SECONDS_PER_DAY - 1)
        /\ elapsed_seconds = RawElapsed(now)
        /\ FLt(elapsed_seconds, FromInt(SECONDS_PER_DAY))
        /\ running_hours \in 0..23
        /\ running_hours = FFloorDivInt(elapsed_seconds, SECONDS_PER_HOUR)

\* the last microsecond of a day
TickBeforeMidnight ==
    /\ Ticked
    /\ now.sec = SECONDS_PER_DAY - 1
    /\ now.us = MICROS_PER_SECOND - 1
    /\ running_hours = 23

(***************************************************************************)
(* Properties of k_format (SpecFmt)                                        *)
(***************************************************************************)

\* C4: for a value >= 1,000,000 k_format returns the value over 10^9 ("B")
\* or 10^6 ("M") to one decimal place, a trailing zero and a trailing
\* decimal point stripped from the number before the suffix: 2,000,000
\* gives "2M", 2,000,000,000 gives "2B".
LargeValuesStripped ==
    (Formatted /\ val.n >= Million) =>
        out = IF val.n >= Billion
              THEN StrippedAbbrev(KVal(val), Billion, "B")
              ELSE StrippedAbbrev(KVal(val), Million, "M")

\* C5, as stated: for 1,000 <= v < 1,000,000 k_format returns v / 1000 to
\* zero decimals, a half rounded up, then "k"; below 1,000 it returns v
\* rounded to an integer, no suffix.
SmallValuesRoundHalfUp ==
    (Formatted /\ val.n < Million) =>
        IF val.n >= Thousand
        THEN out = Digits(NearestHalfUp(Twice(val), 2 * Thousand)) \o <<"k">>
        ELSE out \in {Grouped(NearestHalfUp(Twice(val), 2)),
                      Grouped(NearestHalfEven(Twice(val), 2))}

\* C5, as the code has it: v / 1000 to zero decimals, a half rounded to the
\* even neighbour (2,500 gives "2k", 3,500 gives "4k"), then "k"; below
\* 1,000 v rounded the same way, with thousands separators (999.5 gives
\* "1,000"), no suffix.
SmallValuesRoundHalfEven ==
    (Formatted /\ val.n < Million) =>
        IF val.n >= Thousand
        THEN out = Digits(NearestHalfEven(Twice(val), 2 * Thousand)) \o <<"k">>
        ELSE out = Grouped(NearestHalfEven(Twice(val), 2))

\* 2,500 formatted: the half goes down to the even 2
HalfRoundedDown == val = [n |-> 2500, half |-> 0] /\ out = <<"2", "k">>

\* C9: the number k_format shows before its suffix is below 1000: no
\* "1000k", no "1000.0M".
NumberShownBelowThousand ==
    Formatted => ShownNumber(out) < Thousand

====
